---- MODULE Spec2Model ----
\* RTube: the encoding pipeline of rtube/services/encoder.py (EncoderService),
\* the persisted EncodingJob row it updates and the in-memory progress store
\* read by get_progress.
EXTENDS Integers, Sequences, FiniteSets, TLC

VARIABLES
    pc,               \* position of each job's worker thread in _encode_worker
    args,             \* the arguments encode_video passed to the worker thread
    progress_dict,    \* the worker's local progress_dict
    progress,         \* EncoderService._progress: job id -> published copy
    encoding_jobs,    \* table encoding_jobs: job id -> EncodingJob row
    source,           \* whether input_path exists on disk
    exc,              \* str(e) of the exception caught at line 508
    invoked,          \* the external calls the worker made, in order
    failed_gens,      \* the derivative generators that returned False
    representations,  \* what hls.representations(...) was configured with
    ticks,            \* monitor callbacks delivered by the running hls.output
    stream,           \* state of the encoding_progress response of each job id
    last_event,       \* the record that response yielded last
    fn,               \* the derivative generator being called, or "none"
    at,               \* position of that call in the generator's code
    locals,           \* local variables of that call, as assigned so far
    subprocesses,     \* the subprocess.run calls it made, in order
    files,            \* what the call has created on disk and not removed
    ret               \* the value the call returned

vars == <<pc, args, progress_dict, progress, encoding_jobs, source, exc,
          invoked, failed_gens, representations, ticks, stream, last_event,
          fn, at, locals, subprocesses, files, ret>>

\* what belongs to the encoding_progress responses
streams == <<stream, last_event>>

\* what belongs to a call of a derivative generator
tools == <<fn, at, locals, subprocesses, files, ret>>

----------------------------------------------------------------------------
\* Bounds of the model.

\* the job ids of the model (EncodingJob.id, assigned by upload_video)
JobIds == {1, 2}

\* the job that is submitted when a single pipeline run is studied
SoloJobs == {1}

\* longest list of requested quality labels
MaxQualities == 2

\* most monitor callbacks the encoding tool delivers during one hls.output
MaxTicks == 2

\* the (positive) media duration the tool reports to the monitor callback
MediaDuration == 2

\* labels a request may carry: two recognised ones and an unrecognised one
RequestLabels == {"144p", "720p", "9999p"}

\* messages of the exceptions hls.output may raise
EncoderErrors == {"ffmpeg failed"}

None == "None"

----------------------------------------------------------------------------
\* Data.

Representation(w, h, video, audio) ==
    [width |-> w, height |-> h, video |-> video, audio |-> audio]

QUALITY_PRESETS ==
    ("144p"  :> Representation(256, 144, 95 * 1024, 64 * 1024)) @@
    ("240p"  :> Representation(426, 240, 150 * 1024, 94 * 1024)) @@
    ("360p"  :> Representation(640, 360, 276 * 1024, 128 * 1024)) @@
    ("480p"  :> Representation(854, 480, 750 * 1024, 192 * 1024)) @@
    ("720p"  :> Representation(1280, 720, 2048 * 1024, 320 * 1024)) @@
    ("1080p" :> Representation(1920, 1080, 4096 * 1024, 320 * 1024)) @@
    ("1440p" :> Representation(2560, 1440, 6144 * 1024, 320 * 1024)) @@
    ("2160p" :> Representation(3840, 2160, 17408 * 1024, 320 * 1024))

\* dict[k] = v on a dict modelled as a function
SetKey(d, k, v) == [x \in (DOMAIN d) \cup {k} |-> IF x = k THEN v ELSE d[x]]

\* del d[k]
DelKey(d, k) == [x \in (DOMAIN d) \ {k} |-> d[x]]

EmptyDict == [x \in {} |-> None]

BoundedSeq(S, n) == UNION {[1..m -> S] : m \in 0..n}

\* EncoderService.get_progress
DefaultProgress == [progress |-> 0, status |-> "pending"]

get_progress(job_id) ==
    IF job_id \in DOMAIN progress THEN progress[job_id] ELSE DefaultProgress

\* Python's round() of the quotient n / d for d > 0: to nearest, ties to even.
\* (On the inputs of the model the float quotient time_ / duration * 100 rounds
\* as the exact one does: 1/3 -> 33, 2/3 -> 67, -1/2 -> -50.)
Round(n, d) ==
    LET q == n \div d
        r == n - q * d
    IN  IF 2 * r < d THEN q
        ELSE IF 2 * r > d THEN q + 1
        ELSE IF q % 2 = 0 THEN q ELSE q + 1

Min(a, b) == IF a <= b THEN a ELSE b

\* the percent the monitor callback computes (line 473)
MonitorProgress(time_, duration) == Min(Round(time_ * 100, duration), 100)

\* SelectRepresentations with the fallback test made on the requested list
\* instead of the recognised one (`if not qualities`)
SelectRepresentations_FallbackOnEmptyRequest(qualities) ==
    LET recognised == SelectSeq(qualities, LAMBDA q : q \in DOMAIN QUALITY_PRESETS)
        chosen == [i \in 1..Len(recognised) |-> QUALITY_PRESETS[recognised[i]]]
    IN  IF Len(qualities) = 0 THEN <<QUALITY_PRESETS["360p"]>> ELSE chosen

\* the representations the worker configures (lines 462-464)
SelectRepresentations(qualities) ==
    LET recognised == SelectSeq(qualities, LAMBDA q : q \in DOMAIN QUALITY_PRESETS)
        chosen == [i \in 1..Len(recognised) |-> QUALITY_PRESETS[recognised[i]]]
    IN  IF Len(chosen) = 0 THEN <<QUALITY_PRESETS["360p"]>> ELSE chosen

\* the progress_dict built at lines 421-431
InitialProgressDict(a) ==
    [progress       |-> 0,
     status         |-> "encoding",
     has_thumbnail  |-> a.thumbnail_path,
     step_thumbnail |-> IF a.thumbnail_path THEN "pending" ELSE "completed",
     has_preview    |-> a.preview_path,
     step_preview   |-> IF a.preview_path THEN "pending" ELSE "completed",
     has_sprite     |-> a.sprite_path,
     step_sprite    |-> IF a.sprite_path THEN "pending" ELSE "completed",
     step_encoding  |-> "pending"]

\* a freshly created EncodingJob row (routes/encoding.py, upload_video)
NewJobRow ==
    [status |-> "pending", progress |-> 0, completed_at |-> None,
     error_message |-> None]

NoArgs == [submitted |-> FALSE]

----------------------------------------------------------------------------
\* Initial state: upload_video has saved the source file and committed the
\* EncodingJob row; encode_video has not been called yet.

Init ==
    /\ pc = [j \in JobIds |-> "idle"]
    /\ args = [j \in JobIds |-> NoArgs]
    /\ progress_dict = [j \in JobIds |-> EmptyDict]
    /\ progress = EmptyDict
    /\ encoding_jobs = [j \in JobIds |-> NewJobRow]
    /\ source = [j \in JobIds |-> TRUE]
    /\ exc = [j \in JobIds |-> None]
    /\ invoked = [j \in JobIds |-> <<>>]
    /\ failed_gens = [j \in JobIds |-> {}]
    /\ representations = [j \in JobIds |-> <<>>]
    /\ ticks = [j \in JobIds |-> 0]
    /\ stream = [j \in JobIds |-> "none"]
    /\ last_event = [j \in JobIds |-> EmptyDict]
    /\ fn = "none"
    /\ at = "none"
    /\ locals = EmptyDict
    /\ subprocesses = <<>>
    /\ files = {}
    /\ ret = None

----------------------------------------------------------------------------
\* Operations.

\* Publish storing every job's record under one fixed key
Publish_FixedKey(j, d) == progress' = SetKey(progress, 1, d)

\* self._progress[job_id] = progress_dict.copy()
Publish(j, d) == progress' = SetKey(progress, j, d)

\* the arguments of one encode_video call
Args(th, pv, sp, del, qs) ==
    [submitted |-> TRUE, thumbnail_path |-> th, preview_path |-> pv,
     sprite_path |-> sp, delete_original |-> del, qualities |-> qs]

\* every call within the bounds
AllArgs ==
    {Args(th, pv, sp, del, qs) :
        th \in BOOLEAN, pv \in BOOLEAN, sp \in BOOLEAN, del \in BOOLEAN,
        qs \in BoundedSeq(RequestLabels, MaxQualities)}

\* the calls upload_video makes: thumbnail and preview targets, no sprite
UploadArgs ==
    {Args(TRUE, TRUE, FALSE, del, qs) :
        del \in BOOLEAN, qs \in {<<"720p">>, <<"9999p">>}}

\* calls with at most the thumbnail target, used where two jobs run at once
ThumbnailArgs == {Args(th, FALSE, FALSE, FALSE, <<>>) : th \in BOOLEAN}

\* EncoderService.encode_video: start the worker thread with its arguments.
StartThread(j, inputs) ==
    /\ pc[j] = "idle"
    /\ \E a \in inputs : args' = [args EXCEPT ![j] = a]
    /\ pc' = [pc EXCEPT ![j] = "start"]
    /\ UNCHANGED <<streams, tools, progress_dict, progress, encoding_jobs,
                   source, exc, invoked, failed_gens, representations, ticks>>

encode_video(j) == StartThread(j, AllArgs)

\* routes/videos.py delete_video: a concurrent request deletes the job's row.
delete_video(j) ==
    /\ j \in DOMAIN encoding_jobs
    /\ encoding_jobs' = DelKey(encoding_jobs, j)
    /\ UNCHANGED <<streams, tools, pc, args, progress_dict, progress, source,
                   exc, invoked, failed_gens, representations, ticks>>

\* WorkerStart without the `if not job: return` of lines 413-414, the worker
\* going on to build and publish its record
WorkerStart_IgnoreMissingRow(j) ==
    /\ pc[j] = "start"
    /\ \/ /\ j \notin DOMAIN encoding_jobs
          /\ pc' = [pc EXCEPT ![j] = "init"]
          /\ UNCHANGED encoding_jobs
       \/ /\ j \in DOMAIN encoding_jobs
          /\ encoding_jobs' = [encoding_jobs EXCEPT ![j].status = "encoding"]
          /\ pc' = [pc EXCEPT ![j] = "init"]
       \/ /\ j \in DOMAIN encoding_jobs
          /\ pc' = [pc EXCEPT ![j] = "crashed"]
          /\ UNCHANGED encoding_jobs
    /\ UNCHANGED <<streams, tools, args, progress_dict, progress, source, exc,
                   invoked, failed_gens, representations, ticks>>

\* _encode_worker lines 412-418: load the row, mark it "encoding", commit.
\* The row may be gone (return), and the commit may raise outside any try.
WorkerStart(j) ==
    /\ pc[j] = "start"
    /\ \/ /\ j \notin DOMAIN encoding_jobs
          /\ pc' = [pc EXCEPT ![j] = "done"]
          /\ UNCHANGED encoding_jobs
       \/ /\ j \in DOMAIN encoding_jobs
          /\ encoding_jobs' = [encoding_jobs EXCEPT ![j].status = "encoding"]
          /\ pc' = [pc EXCEPT ![j] = "init"]
       \/ /\ j \in DOMAIN encoding_jobs
          /\ pc' = [pc EXCEPT ![j] = "crashed"]
          /\ UNCHANGED encoding_jobs
    /\ UNCHANGED <<streams, tools, args, progress_dict, progress, source, exc,
                   invoked, failed_gens, representations, ticks>>

\* lines 421-432: build progress_dict and publish the first record.
WorkerInit(j) ==
    /\ pc[j] = "init"
    /\ progress_dict' = [progress_dict EXCEPT ![j] = InitialProgressDict(args[j])]
    /\ Publish(j, progress_dict'[j])
    /\ pc' = [pc EXCEPT ![j] = "thumbnail"]
    /\ UNCHANGED <<streams, tools, args, encoding_jobs, source, exc, invoked,
                   failed_gens, representations, ticks>>

PathKey == [thumbnail |-> "thumbnail_path", preview |-> "preview_path",
            sprite |-> "sprite_path"]

StepKey == [thumbnail |-> "step_thumbnail", preview |-> "step_preview",
            sprite |-> "step_sprite"]

\* AfterStep with the preview and sprite blocks exchanged
AfterStep_Swapped ==
    [thumbnail |-> "sprite", sprite |-> "preview", preview |-> "setup"]

\* where the worker goes after a derivative step
AfterStep == [thumbnail |-> "preview", preview |-> "sprite", sprite |-> "setup"]

\* BeginStep without the `if <target>_path:` test
BeginStep_Unconditional(j, step) ==
    /\ pc[j] = step
    /\ progress_dict' = [progress_dict EXCEPT
                           ![j] = SetKey(@, StepKey[step], "processing")]
    /\ Publish(j, progress_dict'[j])
    /\ invoked' = [invoked EXCEPT ![j] = Append(@, step)]
    /\ pc' = [pc EXCEPT ![j] = "gen_" \o step]
    /\ UNCHANGED <<streams, tools, args, encoding_jobs, source, exc,
                   failed_gens, representations, ticks>>

\* `if <target>_path:` then mark the step "processing", publish and call the
\* generator (lines 436-439, 444-447, 452-455); the step is skipped otherwise.
BeginStep(j, step) ==
    /\ pc[j] = step
    /\ IF args[j][PathKey[step]]
       THEN /\ progress_dict' = [progress_dict EXCEPT
                                   ![j] = SetKey(@, StepKey[step], "processing")]
            /\ Publish(j, progress_dict'[j])
            /\ invoked' = [invoked EXCEPT ![j] = Append(@, step)]
            /\ pc' = [pc EXCEPT ![j] = "gen_" \o step]
       ELSE /\ pc' = [pc EXCEPT ![j] = AfterStep[step]]
            /\ UNCHANGED <<progress_dict, progress, invoked>>
    /\ UNCHANGED <<streams, tools, args, encoding_jobs, source, exc,
                   failed_gens, representations, ticks>>

\* GeneratorReturn marking the step "completed" only when the generator
\* returned True
GeneratorReturn_OnlyOnSuccess(j, step) ==
    /\ pc[j] = "gen_" \o step
    /\ \E ok \in BOOLEAN :
          /\ failed_gens' = [failed_gens EXCEPT
                               ![j] = IF ok THEN @ ELSE @ \cup {step}]
          /\ progress_dict' = [progress_dict EXCEPT
                ![j] = IF ok THEN SetKey(@, StepKey[step], "completed") ELSE @]
    /\ Publish(j, progress_dict'[j])
    /\ pc' = [pc EXCEPT ![j] = AfterStep[step]]
    /\ UNCHANGED <<streams, tools, args, encoding_jobs, source, exc, invoked,
                   representations, ticks>>

\* GeneratorReturn without the assignment of "completed" (lines 440, 448, 456)
GeneratorReturn_NoComplete(j, step) ==
    /\ pc[j] = "gen_" \o step
    /\ \E ok \in BOOLEAN :
          failed_gens' = [failed_gens EXCEPT
                            ![j] = IF ok THEN @ ELSE @ \cup {step}]
    /\ Publish(j, progress_dict[j])
    /\ pc' = [pc EXCEPT ![j] = AfterStep[step]]
    /\ UNCHANGED <<streams, tools, args, progress_dict, encoding_jobs, source,
                   exc, invoked, representations, ticks>>

\* The generator returns True or False (it catches every Exception itself:
\* lines 93-95, 146-148, 214-216); the worker ignores the result, marks the
\* step "completed" and publishes (lines 440-441, 448-449, 456-457).
GeneratorReturn(j, step) ==
    /\ pc[j] = "gen_" \o step
    /\ \E ok \in BOOLEAN :
          failed_gens' = [failed_gens EXCEPT
                            ![j] = IF ok THEN @ ELSE @ \cup {step}]
    /\ progress_dict' = [progress_dict EXCEPT
                           ![j] = SetKey(@, StepKey[step], "completed")]
    /\ Publish(j, progress_dict'[j])
    /\ pc' = [pc EXCEPT ![j] = AfterStep[step]]
    /\ UNCHANGED <<streams, tools, args, encoding_jobs, source, exc, invoked,
                   representations, ticks>>

\* lines 459-469 and the call of hls.output at 484: configure the
\* representations, mark step_encoding "processing", publish, start encoding.
SetupEncoder(j) ==
    /\ pc[j] = "setup"
    /\ representations' = [representations EXCEPT
                             ![j] = SelectRepresentations(args[j].qualities)]
    /\ progress_dict' = [progress_dict EXCEPT
                           ![j] = SetKey(@, "step_encoding", "processing")]
    /\ Publish(j, progress_dict'[j])
    /\ invoked' = [invoked EXCEPT ![j] = Append(@, "encoder")]
    /\ pc' = [pc EXCEPT ![j] = "encoding"]
    /\ UNCHANGED <<streams, tools, args, encoding_jobs, source, exc,
                   failed_gens, ticks>>

\* what the tool may pass as time_left: nothing, a number, something int()
\* rejects
TimeLefts == {None, "7", "soon"}

IsNumber(s) == s \in {"7"}

Int_(s) == CASE s = "7" -> 7

\* MonitorDict building a fresh record {progress, status} on every tick
MonitorDict_Overwrite(d, duration, time_, time_left) ==
    IF duration > 0
    THEN [progress |-> MonitorProgress(time_, duration), status |-> "encoding"]
    ELSE d

\* progress_dict after one monitor callback (lines 471-480)
MonitorDict(d, duration, time_, time_left) ==
    IF duration > 0
    THEN LET d1 == SetKey(d, "progress", MonitorProgress(time_, duration))
         IN  IF time_left # None /\ IsNumber(time_left)
             THEN SetKey(d1, "time_left", Int_(time_left))
             ELSE d1
    ELSE d

\* the monitor callback, called by the tool while hls.output runs
monitor(j) ==
    /\ pc[j] = "encoding"
    /\ ticks[j] < MaxTicks
    /\ ticks' = [ticks EXCEPT ![j] = @ + 1]
    /\ \E duration \in {0, MediaDuration}, time_ \in -1..(MediaDuration + 1),
          time_left \in TimeLefts :
          /\ progress_dict' = [progress_dict EXCEPT
                 ![j] = MonitorDict(@, duration, time_, time_left)]
          /\ IF duration > 0
             THEN Publish(j, progress_dict'[j])
             ELSE UNCHANGED progress
    /\ UNCHANGED <<streams, tools, pc, args, encoding_jobs, source, exc,
                   invoked, failed_gens, representations>>

\* CompletedDict without line 487 (progress = 100)
CompletedDict_NoPercent(d) ==
    SetKey(SetKey(d, "step_encoding", "completed"), "status", "completed")

\* progress_dict after lines 486-488
CompletedDict(d) ==
    SetKey(SetKey(SetKey(d, "step_encoding", "completed"),
                  "progress", 100), "status", "completed")

\* hls.output returned: lines 486-489.
EncoderSuccess(j) ==
    /\ pc[j] = "encoding"
    /\ progress_dict' = [progress_dict EXCEPT ![j] = CompletedDict(@)]
    /\ Publish(j, progress_dict'[j])
    /\ pc' = [pc EXCEPT ![j] = "persist_completed"]
    /\ ticks' = [ticks EXCEPT ![j] = 0]
    /\ UNCHANGED <<streams, tools, args, encoding_jobs, source, exc, invoked,
                   failed_gens, representations>>

\* hls.output raised: control goes to the except clause at line 508.
EncoderRaise(j) ==
    /\ pc[j] = "encoding"
    /\ \E e \in EncoderErrors : exc' = [exc EXCEPT ![j] = e]
    /\ pc' = [pc EXCEPT ![j] = "handler"]
    /\ ticks' = [ticks EXCEPT ![j] = 0]
    /\ UNCHANGED <<streams, tools, args, progress_dict, progress,
                   encoding_jobs, source, invoked, failed_gens,
                   representations>>

\* CompletedRow without line 493 (job.status = "completed")
CompletedRow_NoStatus(row) ==
    [row EXCEPT !.progress = 100, !.completed_at = "utcnow"]

\* the row after lines 493-495
CompletedRow(row) ==
    [row EXCEPT !.status = "completed", !.progress = 100,
                !.completed_at = "utcnow"]

\* lines 491-496, inside the try: record completion on the row and commit.
\* db.session.get returns None for a deleted row (AttributeError at 493) and
\* the commit may raise; both land in the except clause at line 508.
PersistCompleted(j) ==
    /\ pc[j] = "persist_completed"
    /\ \/ /\ j \notin DOMAIN encoding_jobs
          /\ exc' = [exc EXCEPT ![j] = "NoneType has no attribute status"]
          /\ pc' = [pc EXCEPT ![j] = "handler"]
          /\ UNCHANGED encoding_jobs
       \/ /\ j \in DOMAIN encoding_jobs
          /\ encoding_jobs' = [encoding_jobs EXCEPT ![j] = CompletedRow(@)]
          /\ pc' = [pc EXCEPT ![j] = "cleanup"]
          /\ UNCHANGED exc
       \/ /\ j \in DOMAIN encoding_jobs
          /\ exc' = [exc EXCEPT ![j] = "commit failed"]
          /\ pc' = [pc EXCEPT ![j] = "handler"]
          /\ UNCHANGED encoding_jobs
    /\ UNCHANGED <<streams, tools, args, progress_dict, progress, source,
                   invoked, failed_gens, representations, ticks>>

\* Cleanup without the delete_original test
Cleanup_Always(j) ==
    /\ pc[j] = "cleanup"
    /\ \/ /\ ~source[j]
          /\ pc' = [pc EXCEPT ![j] = "done"]
          /\ UNCHANGED <<source, exc>>
       \/ /\ exc' = [exc EXCEPT ![j] = "permission denied"]
          /\ pc' = [pc EXCEPT ![j] = "handler"]
          /\ UNCHANGED source
       \/ /\ source[j]
          /\ \E unlinked \in BOOLEAN :
                source' = [source EXCEPT ![j] = ~unlinked]
          /\ pc' = [pc EXCEPT ![j] = "done"]
          /\ UNCHANGED exc
    /\ UNCHANGED <<streams, tools, args, progress_dict, progress,
                   encoding_jobs, invoked, failed_gens, representations,
                   ticks>>

\* Cleanup evicting the job's record from the store once the job is over
Cleanup_Prune(j) ==
    /\ pc[j] = "cleanup"
    /\ \/ /\ ~(args[j].delete_original /\ source[j])
          /\ pc' = [pc EXCEPT ![j] = "done"]
          /\ progress' = DelKey(progress, j)
          /\ UNCHANGED <<source, exc>>
       \/ /\ args[j].delete_original
          /\ exc' = [exc EXCEPT ![j] = "permission denied"]
          /\ pc' = [pc EXCEPT ![j] = "handler"]
          /\ UNCHANGED <<source, progress>>
       \/ /\ args[j].delete_original /\ source[j]
          /\ \E unlinked \in BOOLEAN :
                source' = [source EXCEPT ![j] = ~unlinked]
          /\ pc' = [pc EXCEPT ![j] = "done"]
          /\ progress' = DelKey(progress, j)
          /\ UNCHANGED exc
    /\ UNCHANGED <<streams, tools, args, progress_dict, encoding_jobs, invoked,
                   failed_gens, representations, ticks>>

\* lines 500-506, inside the try: `delete_original and input_path.exists()`,
\* then unlink in its own try. Path.exists() re-raises an OSError other than
\* "not found" (for instance a permission error), which lands at line 508;
\* an error of unlink is logged and swallowed.
Cleanup(j) ==
    /\ pc[j] = "cleanup"
    /\ \/ /\ ~(args[j].delete_original /\ source[j])
          /\ pc' = [pc EXCEPT ![j] = "done"]
          /\ UNCHANGED <<source, exc>>
       \/ /\ args[j].delete_original
          /\ exc' = [exc EXCEPT ![j] = "permission denied"]
          /\ pc' = [pc EXCEPT ![j] = "handler"]
          /\ UNCHANGED source
       \/ /\ args[j].delete_original /\ source[j]
          /\ \E unlinked \in BOOLEAN :
                source' = [source EXCEPT ![j] = ~unlinked]
          /\ pc' = [pc EXCEPT ![j] = "done"]
          /\ UNCHANGED exc
    /\ UNCHANGED <<streams, tools, args, progress_dict, progress,
                   encoding_jobs, invoked, failed_gens, representations,
                   ticks>>

\* FailedRow without line 513 (job.error_message = str(e))
FailedRow_NoMessage(row, e) == [row EXCEPT !.status = "failed"]

\* FailedRow without line 512 (job.status = "failed")
FailedRow_NoStatus(row, e) == [row EXCEPT !.error_message = e]

\* the row after lines 512-513
FailedRow(row, e) == [row EXCEPT !.status = "failed", !.error_message = e]

\* the except clause, lines 509-514: record the failure on the row and commit.
\* An exception raised here (row gone, commit error) ends the thread.
Handler(j) ==
    /\ pc[j] = "handler"
    /\ \/ /\ j \notin DOMAIN encoding_jobs
          /\ pc' = [pc EXCEPT ![j] = "crashed"]
          /\ UNCHANGED encoding_jobs
       \/ /\ j \in DOMAIN encoding_jobs
          /\ encoding_jobs' = [encoding_jobs EXCEPT ![j] = FailedRow(@, exc[j])]
          /\ pc' = [pc EXCEPT ![j] = "publish_failed"]
       \/ /\ j \in DOMAIN encoding_jobs
          /\ pc' = [pc EXCEPT ![j] = "crashed"]
          /\ UNCHANGED encoding_jobs
    /\ UNCHANGED <<streams, tools, args, progress_dict, progress, source, exc,
                   invoked, failed_gens, representations, ticks>>

\* FailedDict without line 516 (status = "failed")
FailedDict_NoStatus(d, e) == SetKey(d, "error", e)

\* FailedDict that also puts the encoding step back to "pending"
FailedDict_ResetEncoding(d, e) ==
    SetKey(SetKey(SetKey(d, "status", "failed"), "error", e),
           "step_encoding", "pending")

\* progress_dict after lines 516-517
FailedDict(d, e) == SetKey(SetKey(d, "status", "failed"), "error", e)

\* PublishFailed without line 518 (the failure is never stored)
PublishFailed_NoPublish(j) ==
    /\ pc[j] = "publish_failed"
    /\ progress_dict' = [progress_dict EXCEPT ![j] = FailedDict(@, exc[j])]
    /\ pc' = [pc EXCEPT ![j] = "done"]
    /\ UNCHANGED <<streams, tools, args, progress, encoding_jobs, source, exc,
                   invoked, failed_gens, representations, ticks>>

\* the except clause, lines 516-518: publish the failure.
PublishFailed(j) ==
    /\ pc[j] = "publish_failed"
    /\ progress_dict' = [progress_dict EXCEPT ![j] = FailedDict(@, exc[j])]
    /\ Publish(j, progress_dict'[j])
    /\ pc' = [pc EXCEPT ![j] = "done"]
    /\ UNCHANGED <<streams, tools, args, encoding_jobs, source, exc, invoked,
                   failed_gens, representations, ticks>>

Next ==
    \E j \in SoloJobs :
        \/ encode_video(j)
        \/ delete_video(j)
        \/ WorkerStart(j)
        \/ WorkerInit(j)
        \/ \E step \in {"thumbnail", "preview", "sprite"} : BeginStep(j, step)
        \/ \E step \in {"thumbnail", "preview", "sprite"} : GeneratorReturn(j, step)
        \/ SetupEncoder(j)
        \/ monitor(j)
        \/ EncoderSuccess(j)
        \/ EncoderRaise(j)
        \/ PersistCompleted(j)
        \/ Cleanup(j)
        \/ Handler(j)
        \/ PublishFailed(j)

Spec == Init /\ [][Next]_vars

----------------------------------------------------------------------------
\* The progress stream (routes/encoding.py, encoding_progress).

\* GET /encode/progress/<job_id>: the response generator is created.
OpenStream(j) ==
    /\ stream[j] = "none"
    /\ stream' = [stream EXCEPT ![j] = "open"]
    /\ UNCHANGED <<tools, last_event, pc, args, progress_dict, progress,
                   encoding_jobs, source, exc, invoked, failed_gens,
                   representations, ticks>>

\* StreamPoll with `status != "encoding"` as the test that ends the loop
StreamPoll_UntilNotEncoding(j) ==
    /\ stream[j] = "open"
    /\ LET progress_data == get_progress(j)
       IN  /\ last_event' = [last_event EXCEPT ![j] = progress_data]
           /\ stream' = [stream EXCEPT ![j] =
                  IF progress_data.status # "encoding" THEN "closed" ELSE "open"]
    /\ UNCHANGED <<tools, pc, args, progress_dict, progress, encoding_jobs,
                   source, exc, invoked, failed_gens, representations, ticks>>

\* StreamPoll reading with self._progress.setdefault(job_id, default)
StreamPoll_SetDefault(j) ==
    /\ stream[j] = "open"
    /\ progress' = IF j \in DOMAIN progress THEN progress
                   ELSE SetKey(progress, j, DefaultProgress)
    /\ LET progress_data == get_progress(j)
       IN  /\ last_event' = [last_event EXCEPT ![j] = progress_data]
           /\ stream' = [stream EXCEPT ![j] =
                  IF progress_data.status \in {"completed", "failed"}
                  THEN "closed" ELSE "open"]
    /\ UNCHANGED <<tools, pc, args, progress_dict, encoding_jobs, source, exc,
                   invoked, failed_gens, representations, ticks>>

\* One turn of the loop of generate() (lines 123-130): read the record with
\* get_progress (a dict.get: the store is not touched), yield it, and end the
\* response if its status is "completed" or "failed"; sleep otherwise.
StreamPoll(j) ==
    /\ stream[j] = "open"
    /\ LET progress_data == get_progress(j)
       IN  /\ last_event' = [last_event EXCEPT ![j] = progress_data]
           /\ stream' = [stream EXCEPT ![j] =
                  IF progress_data.status \in {"completed", "failed"}
                  THEN "closed" ELSE "open"]
    /\ UNCHANGED <<tools, pc, args, progress_dict, progress, encoding_jobs,
                   source, exc, invoked, failed_gens, representations, ticks>>

\* upload_video (routes/encoding.py line 99): the call the repository makes.
upload_video(j) == StartThread(j, UploadArgs)

\* the steps of the worker thread that do not wait for the encoding tool's
\* callbacks: each is taken once the thread is scheduled and the external
\* call it waits for has returned or raised
Worker(j) ==
    \/ WorkerStart(j)
    \/ WorkerInit(j)
    \/ \E step \in {"thumbnail", "preview", "sprite"} : BeginStep(j, step)
    \/ \E step \in {"thumbnail", "preview", "sprite"} : GeneratorReturn(j, step)
    \/ SetupEncoder(j)
    \/ EncoderSuccess(j)
    \/ EncoderRaise(j)
    \/ PersistCompleted(j)
    \/ Cleanup(j)
    \/ Handler(j)
    \/ PublishFailed(j)

StreamNext ==
    \E j \in SoloJobs :
        \/ upload_video(j)
        \/ delete_video(j)
        \/ WorkerStart(j)
        \/ WorkerInit(j)
        \/ \E step \in {"thumbnail", "preview", "sprite"} : BeginStep(j, step)
        \/ \E step \in {"thumbnail", "preview", "sprite"} : GeneratorReturn(j, step)
        \/ SetupEncoder(j)
        \/ monitor(j)
        \/ EncoderSuccess(j)
        \/ EncoderRaise(j)
        \/ PersistCompleted(j)
        \/ Cleanup(j)
        \/ Handler(j)
        \/ PublishFailed(j)
        \/ OpenStream(j)
        \/ StreamPoll(j)

\* A submitted job with a stream on it: the worker thread is scheduled fairly,
\* every external call returns or raises, and the stream keeps polling.
StreamSpec ==
    /\ Init
    /\ [][StreamNext]_vars
    /\ \A j \in SoloJobs : WF_vars(Worker(j)) /\ WF_vars(StreamPoll(j))

----------------------------------------------------------------------------
\* Two jobs running at once.

\* a call of encode_video with at most the thumbnail target
encode_thumbnail_job(j) == StartThread(j, ThumbnailArgs)

MultiNext ==
    \E j \in JobIds :
        \/ encode_thumbnail_job(j)
        \/ delete_video(j)
        \/ WorkerStart(j)
        \/ WorkerInit(j)
        \/ \E step \in {"thumbnail", "preview", "sprite"} : BeginStep(j, step)
        \/ \E step \in {"thumbnail", "preview", "sprite"} : GeneratorReturn(j, step)
        \/ SetupEncoder(j)
        \/ monitor(j)
        \/ EncoderSuccess(j)
        \/ EncoderRaise(j)
        \/ PersistCompleted(j)
        \/ Cleanup(j)
        \/ Handler(j)
        \/ PublishFailed(j)

MultiSpec == Init /\ [][MultiNext]_vars

----------------------------------------------------------------------------
\* The duration probe and the derivative generators (encoder.py lines 45-409).
\* The environment's answers (what ffprobe prints, what a glob finds, how
\* ffmpeg ends) are drawn at the step that asks for them.

\* what belongs to the encoding jobs
jobs == <<pc, args, progress_dict, progress, encoding_jobs, source, exc,
          invoked, failed_gens, representations, ticks>>

FromSource == {"_generate_thumbnail", "_generate_preview", "_generate_sprite"}

FromHls == {"generate_thumbnail_from_hls", "generate_preview_from_hls"}

\* most .ts segments a glob finds for one quality
MaxSegments == 5

\* the durations ffprobe may print, in seconds
ProbedDurations == {-1, 0, 2}

\* what ffprobe may write on its standard output
ProbeOutputs ==
    {"", "\n", "N/A", "N/A\n", "garbage"}
       \cup {ToString(n) : n \in ProbedDurations}

\* str.strip() on those outputs
Strip(s) == CASE s = "\n" -> ""
              [] s = "N/A\n" -> "N/A"
              [] OTHER -> s

\* whether float(s) returns (it raises ValueError otherwise)
IsFloat(s) == \E n \in ProbedDurations : ToString(n) = s

\* float(s)
Float(s) == CHOOSE n \in ProbedDurations : ToString(n) = s

\* a time in seconds, in the unit of the recorded positions (tenths)
Tenths(seconds) == 10 * seconds

Max(a, b) == IF a >= b THEN a ELSE b

\* how a run of ffmpeg ends: exit 0 with a non-empty output file, exit 0
\* with an empty or missing one, a non-zero exit, or subprocess.run raising
\* (the binary cannot be launched)
FfmpegOutcomes == {"ok", "empty", "nonzero", "raises"}

\* a subprocess.run of ffprobe and of ffmpeg, with what came of it
Ffprobe(entries, launched, stdout) ==
    [cmd |-> "ffprobe", entries |-> entries, launched |-> launched,
     stdout |-> stdout]

Ffmpeg(input, ss, outcome) ==
    [cmd |-> "ffmpeg", input |-> input, ss |-> ss, outcome |-> outcome]

\* a call of one of the generators; each starts from a clean directory
call_generator(f) ==
    /\ fn = "none"
    /\ fn' = f
    /\ at' = IF f \in FromSource THEN "probe_container" ELSE "scan"
    /\ UNCHANGED <<jobs, streams, locals, subprocesses, files, ret>>

\* _get_video_duration, lines 47-56: the container-level query.  A value
\* other than "" and 'N/A' goes to float(), whose ValueError is caught at
\* line 70 together with an error of subprocess.run: the function returns 0.
get_video_duration_container ==
    /\ at = "probe_container"
    /\ \E launched \in BOOLEAN, stdout \in ProbeOutputs :
          LET duration_str == Strip(stdout)
          IN  /\ subprocesses' = Append(subprocesses,
                     Ffprobe("format=duration", launched,
                             IF launched THEN stdout ELSE None))
              /\ IF ~launched
                 THEN /\ locals' = SetKey(locals, "duration", 0)
                      /\ at' = "probed"
                 ELSE IF duration_str # "" /\ duration_str # "N/A"
                 THEN /\ locals' = SetKey(locals, "duration",
                             IF IsFloat(duration_str)
                             THEN Float(duration_str) ELSE 0)
                      /\ at' = "probed"
                 ELSE /\ at' = "probe_stream"
                      /\ UNCHANGED locals
    /\ UNCHANGED <<jobs, streams, fn, files, ret>>

\* _get_video_duration, lines 58-72: the stream-level query.
get_video_duration_stream ==
    /\ at = "probe_stream"
    /\ \E launched \in BOOLEAN, stdout \in ProbeOutputs :
          LET duration_str == Strip(stdout)
          IN  /\ subprocesses' = Append(subprocesses,
                     Ffprobe("stream=duration", launched,
                             IF launched THEN stdout ELSE None))
              /\ locals' = SetKey(locals, "duration",
                     IF launched /\ duration_str # "" /\ duration_str # "N/A"
                        /\ IsFloat(duration_str)
                     THEN Float(duration_str) ELSE 0)
    /\ at' = "probed"
    /\ UNCHANGED <<jobs, streams, fn, files, ret>>

\* ThumbnailTimestamps without the fallback of line 80: random.uniform is
\* applied to an unknown duration as well
ThumbnailTimestamps_NoFallback(duration) ==
    IF duration <= 0
    THEN {0}
    ELSE {t \in 0..Tenths(duration) :
             t >= duration /\ t <= 9 * duration}

\* the timestamps _generate_thumbnail may pick (lines 78-82), in tenths
ThumbnailTimestamps(duration) ==
    IF duration <= 0
    THEN {Tenths(1)}
    ELSE {t \in 0..Tenths(duration) :
             t >= duration /\ t <= 9 * duration}

\* _generate_thumbnail, lines 78-95: ffmpeg runs with check=True, so a
\* non-zero exit raises and is caught; the output file is not examined.
generate_thumbnail ==
    /\ fn = "_generate_thumbnail" /\ at = "probed"
    /\ \E timestamp \in ThumbnailTimestamps(locals["duration"]),
          outcome \in FfmpegOutcomes :
          /\ locals' = SetKey(locals, "timestamp", timestamp)
          /\ files' = files \cup {"parent"}
                        \cup (IF outcome = "ok" THEN {"output"} ELSE {})
          /\ subprocesses' =
                Append(subprocesses, Ffmpeg("source", timestamp, outcome))
          /\ ret' = (outcome \in {"ok", "empty"})
    /\ at' = "returned"
    /\ UNCHANGED <<jobs, streams, fn>>

\* the tile rows of the sprite sheet (lines 115-117), interval 10, 10 columns
SpriteRows(duration) == Max(1, ((duration \div 10) + 10 - 1) \div 10)

\* _generate_sprite, lines 107-148
generate_sprite ==
    /\ fn = "_generate_sprite" /\ at = "probed"
    /\ IF locals["duration"] <= 0
       THEN /\ ret' = FALSE
            /\ UNCHANGED <<locals, files, subprocesses>>
       ELSE \E outcome \in FfmpegOutcomes :
               /\ locals' = SetKey(locals, "rows",
                                   SpriteRows(locals["duration"]))
               /\ files' = files \cup {"parent"}
                             \cup (IF outcome = "ok" THEN {"output"} ELSE {})
               /\ subprocesses' =
                     Append(subprocesses, Ffmpeg("source", None, outcome))
               /\ ret' = (outcome = "ok")
    /\ at' = "returned"
    /\ UNCHANGED <<jobs, streams, fn>>

\* the start times _generate_preview may pick (lines 168-174) for a clip of
\* 4 seconds, in tenths
PreviewStarts(video_duration) ==
    LET max_start == Max(0, 7 * video_duration - Tenths(4))
        min_start == video_duration
    IN  IF max_start <= min_start THEN {min_start}
        ELSE min_start..max_start

\* _generate_preview, lines 163-216
generate_preview ==
    /\ fn = "_generate_preview" /\ at = "probed"
    /\ IF locals["duration"] <= 0
       THEN /\ ret' = FALSE
            /\ UNCHANGED <<locals, files, subprocesses>>
       ELSE \E start_time \in PreviewStarts(locals["duration"]),
               outcome \in FfmpegOutcomes :
               /\ locals' = SetKey(locals, "start_time", start_time)
               /\ files' = files \cup {"parent"}
                             \cup (IF outcome = "ok" THEN {"output"} ELSE {})
               /\ subprocesses' =
                     Append(subprocesses, Ffmpeg("source", start_time, outcome))
               /\ ret' = (outcome = "ok")
    /\ at' = "returned"
    /\ UNCHANGED <<jobs, streams, fn>>

\* what the glob '<filename>_*p.m3u8' may find: the part matched by '*', as
\* its characters (digits); <<>> is the file '<filename>_p.m3u8'
GlobNames == {<<3, 6, 0>>, <<7, 2, 0>>, <<1, 0, 8, 0>>, <<>>}

\* quality_pattern.match: `(\d+p)` wants at least one digit
Matches(name) == Len(name) >= 1 /\ \A i \in 1..Len(name) : name[i] \in 0..9

\* int(quality_str.replace('p', ''))
RECURSIVE QualityNum(_)
QualityNum(name) ==
    IF Len(name) = 0 THEN 0
    ELSE 10 * QualityNum(SubSeq(name, 1, Len(name) - 1)) + name[Len(name)]

\* the order of Python strings on the quality labels
RECURSIVE StrLess(_, _)
StrLess(a, b) ==
    IF Len(b) = 0 THEN FALSE
    ELSE IF Len(a) = 0 THEN TRUE
    ELSE IF Head(a) # Head(b) THEN Head(a) < Head(b)
    ELSE StrLess(Tail(a), Tail(b))

\* Highest with the labels sorted as strings
Highest_AsStrings(qualities) ==
    CHOOSE q \in qualities : \A r \in qualities : ~StrLess(q, r)

\* qualities.sort(key=lambda x: x[0], reverse=True); qualities[0]
Highest(qualities) ==
    CHOOSE q \in qualities :
       \A r \in qualities : QualityNum(q) >= QualityNum(r)

\* qualities.sort(key=lambda x: x[0]); qualities[0]
Lowest(qualities) ==
    CHOOSE q \in qualities :
       \A r \in qualities : QualityNum(q) <= QualityNum(r)

\* hls_scan creating the output directory before it looks for playlists
hls_scan_MkdirFirst ==
    /\ fn \in FromHls /\ at = "scan"
    /\ files' = files \cup {"parent"}
    /\ \E found \in SUBSET GlobNames :
          LET qualities == {name \in found : Matches(name)}
          IN  IF qualities = {}
              THEN /\ locals' = SetKey(locals, "qualities", qualities)
                   /\ ret' = FALSE
                   /\ at' = "returned"
              ELSE /\ locals' = SetKey(SetKey(locals, "qualities", qualities),
                          "quality",
                          IF fn = "generate_thumbnail_from_hls"
                          THEN Highest(qualities) ELSE Lowest(qualities))
                   /\ at' = "segments"
                   /\ UNCHANGED ret
    /\ UNCHANGED <<jobs, streams, fn, subprocesses>>

\* generate_preview_from_hls lines 232-247 and generate_thumbnail_from_hls
\* lines 334-349: collect the qualities that have a sub-playlist, return
\* False if there is none, pick the lowest (preview) or highest (thumbnail).
hls_scan ==
    /\ fn \in FromHls /\ at = "scan"
    /\ \E found \in SUBSET GlobNames :
          LET qualities == {name \in found : Matches(name)}
          IN  IF qualities = {}
              THEN /\ locals' = SetKey(locals, "qualities", qualities)
                   /\ ret' = FALSE
                   /\ at' = "returned"
              ELSE /\ locals' = SetKey(SetKey(locals, "qualities", qualities),
                          "quality",
                          IF fn = "generate_thumbnail_from_hls"
                          THEN Highest(qualities) ELSE Lowest(qualities))
                   /\ at' = "segments"
                   /\ UNCHANGED ret
    /\ UNCHANGED <<jobs, streams, fn, subprocesses, files>>

\* the segment index generate_thumbnail_from_hls may pick (lines 362-368)
ThumbnailSegments(num_segments) ==
    IF num_segments > 2
    THEN Max(0, num_segments \div 10)
            ..Min(num_segments - 1, (9 * num_segments) \div 10)
    ELSE {0}

\* the first and last segment generate_preview_from_hls takes (lines 261-268)
PreviewSegments(num_segments) ==
    IF num_segments > 4
    THEN LET start_idx == Max(0, num_segments \div 10)
         IN  <<start_idx, Min(num_segments - 1, start_idx + 3)>>
    ELSE <<0, Min(num_segments - 1, 2)>>

\* lines 249-270 and 351-371: glob the segments of the chosen quality,
\* return False if there is none, choose which to read.
hls_segments ==
    /\ fn \in FromHls /\ at = "segments"
    /\ \E num_segments \in 0..MaxSegments :
          IF num_segments = 0
          THEN /\ ret' = FALSE
               /\ at' = "returned"
               /\ locals' = SetKey(locals, "num_segments", 0)
          ELSE /\ UNCHANGED ret
               /\ IF fn = "generate_thumbnail_from_hls"
                  THEN /\ \E selected_idx \in ThumbnailSegments(num_segments) :
                             locals' = SetKey(
                                SetKey(locals, "num_segments", num_segments),
                                "selected", <<selected_idx, selected_idx>>)
                       /\ at' = "probe_container"
                  ELSE /\ locals' = SetKey(
                             SetKey(locals, "num_segments", num_segments),
                             "selected", PreviewSegments(num_segments))
                       /\ at' = "concat"
    /\ UNCHANGED <<jobs, streams, fn, subprocesses, files>>

\* the offsets generate_thumbnail_from_hls may pick (lines 376-379), tenths
SegmentOffsets(duration) ==
    IF duration > 1 THEN 5..(Tenths(duration) - 5) ELSE {0}

\* generate_thumbnail_from_hls, lines 373-409: one frame of the selected
\* segment.
generate_thumbnail_from_hls ==
    /\ fn = "generate_thumbnail_from_hls" /\ at = "probed"
    /\ \E offset \in SegmentOffsets(locals["duration"]),
          outcome \in FfmpegOutcomes :
          /\ locals' = SetKey(locals, "offset", offset)
          /\ files' = files \cup {"parent"}
                        \cup (IF outcome = "ok" THEN {"output"} ELSE {})
          /\ subprocesses' = Append(subprocesses,
                Ffmpeg(<<locals["quality"], locals["selected"]>>, offset,
                       outcome))
          /\ ret' = (outcome = "ok")
    /\ at' = "returned"
    /\ UNCHANGED <<jobs, streams, fn>>

\* generate_preview_from_hls, lines 272-319: the concat list is a
\* NamedTemporaryFile(delete=False); concat_file.unlink() (line 304) follows
\* subprocess.run inside the try and is skipped when that call raises.
generate_preview_from_hls ==
    /\ fn = "generate_preview_from_hls" /\ at = "concat"
    /\ \E outcome \in FfmpegOutcomes :
          /\ files' = files \cup {"parent"}
                        \cup (IF outcome = "ok" THEN {"output"} ELSE {})
                        \cup (IF outcome = "raises" THEN {"concat_file"} ELSE {})
          /\ subprocesses' = Append(subprocesses,
                Ffmpeg(<<locals["quality"], locals["selected"]>>, None,
                       outcome))
          /\ ret' = (outcome = "ok")
    /\ at' = "returned"
    /\ UNCHANGED <<jobs, streams, fn, locals>>

ToolNext ==
    \/ \E f \in FromSource \cup FromHls : call_generator(f)
    \/ get_video_duration_container
    \/ get_video_duration_stream
    \/ generate_thumbnail
    \/ generate_sprite
    \/ generate_preview
    \/ hls_scan
    \/ hls_segments
    \/ generate_thumbnail_from_hls
    \/ generate_preview_from_hls

\* One call of a generator from the administration routes or a script.
ToolSpec == Init /\ [][ToolNext]_vars

----------------------------------------------------------------------------
\* A job whose thumbnail step runs _generate_thumbnail.

\* line 439: the worker calls self._generate_thumbnail
call_generate_thumbnail(j) ==
    /\ pc[j] = "gen_thumbnail"
    /\ call_generator("_generate_thumbnail")

\* lines 439-441: the call has returned; the worker drops the result
return_generate_thumbnail(j) ==
    /\ fn = "_generate_thumbnail" /\ at = "returned"
    /\ GeneratorReturn(j, "thumbnail")
    /\ ("thumbnail" \in failed_gens'[j]) <=> (ret = FALSE)

ThumbnailNext ==
    \E j \in SoloJobs :
        \/ encode_thumbnail_job(j)
        \/ delete_video(j)
        \/ WorkerStart(j)
        \/ WorkerInit(j)
        \/ \E step \in {"thumbnail", "preview", "sprite"} : BeginStep(j, step)
        \/ call_generate_thumbnail(j)
        \/ get_video_duration_container
        \/ get_video_duration_stream
        \/ generate_thumbnail
        \/ return_generate_thumbnail(j)
        \/ SetupEncoder(j)
        \/ monitor(j)
        \/ EncoderSuccess(j)
        \/ EncoderRaise(j)
        \/ PersistCompleted(j)
        \/ Cleanup(j)
        \/ Handler(j)
        \/ PublishFailed(j)

ThumbnailSpec == Init /\ [][ThumbnailNext]_vars

----------------------------------------------------------------------------
\* Vocabulary of the properties.

Range(f) == {f[x] : x \in DOMAIN f}

Terminal == {"completed", "failed"}

HasRow(j) == j \in DOMAIN encoding_jobs

Submitted(j) == args[j] # NoArgs

Ended(j) == pc[j] \in {"done", "crashed"}

\* hls.output raised in job j (only EncoderRaise stores these messages)
EncoderRaised(j) == exc[j] \in EncoderErrors

\* hls.output returned in job j (only lines 486-488 set this step state)
EncoderSucceeded(j) ==
    /\ "step_encoding" \in DOMAIN progress_dict[j]
    /\ progress_dict[j]["step_encoding"] = "completed"

AllSteps == {"step_thumbnail", "step_preview", "step_sprite", "step_encoding"}

\* position of a step in the order thumbnail, preview, sprite, encode
StepOrder == [thumbnail |-> 1, preview |-> 2, sprite |-> 3, encoder |-> 4]

----------------------------------------------------------------------------
\* C1: a job's status (persisted row, progress record) is 'failed' only if the
\* encoder call hls.output itself raised; no other step of the worker moves the
\* job to 'failed'.  (The statement of the claim; the code violates it.)
C1_FailedOnlyIfEncoderRaised ==
    \A j \in JobIds :
        (get_progress(j).status = "failed"
            \/ (HasRow(j) /\ encoding_jobs[j].status = "failed"))
        => EncoderRaised(j)

\* C2: terminal states are final: once the progress record or the persisted
\* row of a job is 'completed' or 'failed', no later step changes that status.
\* (The statement of the claim; the code violates it.)
C2_TerminalIsFinal ==
    [][\A j \in JobIds :
          /\ (j \in DOMAIN progress /\ progress[j].status \in Terminal)
                => progress'[j].status = progress[j].status
          /\ (HasRow(j) /\ j \in DOMAIN encoding_jobs'
                /\ encoding_jobs[j].status \in Terminal)
                => encoding_jobs'[j].status = encoding_jobs[j].status]_vars

\* C3 as stated: if the encoder call raises, the job ends with progress status
\* 'failed', persisted status 'failed' and completed_at unset.
C3_EndsFailed ==
    \A j \in JobIds :
        (EncoderRaised(j) /\ Ended(j)) =>
            /\ get_progress(j).status = "failed"
            /\ HasRow(j) => /\ encoding_jobs[j].status = "failed"
                            /\ encoding_jobs[j].completed_at = None

\* C3 amended: if the encoder call raises, the job never reaches 'completed'
\* and completed_at stays unset; the worker ends with persisted status 'failed'
\* and progress status 'failed' when the row update of the except clause
\* succeeds, and with the progress record left at 'encoding' when that update
\* itself raises (row deleted, commit error).
C3_EncoderFailure ==
    \A j \in JobIds :
        EncoderRaised(j) =>
            /\ get_progress(j).status # "completed"
            /\ HasRow(j) => /\ encoding_jobs[j].status # "completed"
                            /\ encoding_jobs[j].completed_at = None
            /\ pc[j] = "done" =>
                  /\ get_progress(j).status = "failed"
                  /\ HasRow(j) => encoding_jobs[j].status = "failed"
            /\ pc[j] = "crashed" => get_progress(j).status = "encoding"

C3_Witness ==
    \E j \in JobIds :
        /\ EncoderRaised(j) /\ pc[j] = "done"
        /\ get_progress(j).status = "failed"
        /\ HasRow(j) /\ encoding_jobs[j].status = "failed"
        /\ encoding_jobs[j].completed_at = None

C5_PercentNeverDecreases ==
    [][\A j \in JobIds :
          (j \in DOMAIN progress /\ progress[j].status = "encoding"
              /\ progress'[j].status = "encoding")
          => progress'[j].progress >= progress[j].progress]_vars

\* C6: every progress record read with status 'completed' has progress 100 and
\* all four step states 'completed'.
C6_CompletedIsWhole ==
    \A j \in JobIds :
        get_progress(j).status = "completed" =>
            /\ get_progress(j).progress = 100
            /\ \A k \in AllSteps :
                  k \in DOMAIN get_progress(j) /\ get_progress(j)[k] = "completed"

C6_Witness ==
    \E j \in JobIds :
        /\ get_progress(j).status = "completed"
        /\ args[j].thumbnail_path /\ args[j].preview_path /\ args[j].sprite_path
        /\ get_progress(j).progress = 100

\* C7: for a job submitted with a derivative target unset, every read made
\* after encode_video was called reports that step as 'completed'.
\* (The statement of the claim; the code violates it.)
C7_UnsetStepAlwaysCompleted ==
    \A j \in JobIds :
        Submitted(j) =>
            \A step \in {"thumbnail", "preview", "sprite"} :
                ~args[j][PathKey[step]] =>
                    /\ StepKey[step] \in DOMAIN get_progress(j)
                    /\ get_progress(j)[StepKey[step]] = "completed"

\* C8: the encoder is configured with exactly the representations of the
\* requested labels that are in QUALITY_PRESETS (one per occurrence) when there
\* is one, and with the single '360p' representation otherwise; configuring
\* never fails, so an encoder that runs has its representations.
C8_Representations ==
    \A j \in JobIds :
        /\ "encoder" \in Range(invoked[j]) => representations[j] # <<>>
        /\ representations[j] # <<>> =>
              LET qs == args[j].qualities
                  known == {i \in DOMAIN qs : qs[i] \in DOMAIN QUALITY_PRESETS}
              IN  IF known # {}
                  THEN /\ Range(representations[j])
                              = {QUALITY_PRESETS[qs[i]] : i \in known}
                       /\ Len(representations[j]) = Cardinality(known)
                  ELSE representations[j] = <<QUALITY_PRESETS["360p"]>>

C8_Witness ==
    \E j \in JobIds :
        /\ representations[j] = <<QUALITY_PRESETS["720p"]>>
        /\ "9999p" \in Range(args[j].qualities)

\* C9: the steps run in the order thumbnail, preview, sprite, encode: a step
\* is never marked 'processing', nor its generator or the encoder called,
\* before every earlier step is 'completed'; the calls are made in that order.
C9_FixedOrder ==
    \A j \in JobIds :
        /\ \A a, b \in DOMAIN invoked[j] :
              a < b => StepOrder[invoked[j][a]] < StepOrder[invoked[j][b]]
        /\ j \in DOMAIN progress =>
              /\ progress[j].step_preview = "processing"
                    => progress[j].step_thumbnail = "completed"
              /\ progress[j].step_sprite = "processing"
                    => /\ progress[j].step_thumbnail = "completed"
                       /\ progress[j].step_preview = "completed"
              /\ progress[j].step_encoding # "pending"
                    => /\ progress[j].step_thumbnail = "completed"
                       /\ progress[j].step_preview = "completed"
                       /\ progress[j].step_sprite = "completed"
        /\ \A i \in DOMAIN invoked[j] :
              \A step \in {"thumbnail", "preview", "sprite"} :
                  StepOrder[step] < StepOrder[invoked[j][i]]
                      => progress[j][StepKey[step]] = "completed"

C9_Witness ==
    \E j \in JobIds :
        /\ invoked[j] = <<"thumbnail", "preview", "sprite", "encoder">>
        /\ progress[j].step_encoding = "processing"

\* C10: a derivative generator is invoked only if the job was submitted with
\* its target path; for an absent target the step state is never 'processing'.
C10_AbsentTargetNeverAttempted ==
    \A j \in JobIds :
        Submitted(j) =>
            \A step \in {"thumbnail", "preview", "sprite"} :
                ~args[j][PathKey[step]] =>
                    /\ step \notin Range(invoked[j])
                    /\ step \notin failed_gens[j]
                    /\ j \in DOMAIN progress
                          => progress[j][StepKey[step]] # "processing"
                    /\ StepKey[step] \in DOMAIN progress_dict[j]
                          => progress_dict[j][StepKey[step]] # "processing"

C10_Witness ==
    \E j \in JobIds :
        /\ pc[j] = "done"
        /\ ~args[j].thumbnail_path /\ args[j].preview_path
        /\ invoked[j] = <<"preview", "encoder">>

----------------------------------------------------------------------------
\* C11: a monitor tick changes only the 'progress' and 'time_left' fields of
\* the job's progress record: the status, the has_* flags and the four step
\* states keep the values they had just before the tick, and no other field
\* appears or disappears.
TickFrame(before, after) ==
    /\ DOMAIN after \subseteq (DOMAIN before) \cup {"time_left"}
    /\ \A k \in (DOMAIN before) \ {"progress", "time_left"} :
          k \in DOMAIN after /\ after[k] = before[k]
    /\ {"progress", "status", "has_thumbnail", "has_preview", "has_sprite"}
          \cup AllSteps \subseteq DOMAIN after

C11_TickKeepsOtherFields ==
    [][\A j \in JobIds :
          ticks'[j] = ticks[j] + 1 =>
             /\ j \in DOMAIN progress /\ j \in DOMAIN progress'
             /\ TickFrame(progress[j], progress'[j])
             /\ TickFrame(progress_dict[j], progress_dict'[j])]_vars

\* two ticks have been published on a record that carries step results
C11_Witness ==
    \E j \in JobIds :
       /\ ticks[j] >= 2
       /\ j \in DOMAIN progress
       /\ progress[j]["progress"] = 50
       /\ "time_left" \in DOMAIN progress[j]
       /\ progress[j]["has_thumbnail"]
       /\ progress[j]["step_thumbnail"] = "completed"
       /\ progress[j]["step_encoding"] = "processing"

----------------------------------------------------------------------------
\* C12: the source file is deleted only for a job submitted with
\* delete_original, and only after the row was committed as 'completed' (the
\* encoder returned, no exception is pending, a row that still exists says
\* 'completed'); a job whose encoder call raised keeps its source file.
C12_SourceDeletedOnlyAfterCompletion ==
    \A j \in JobIds :
       /\ ~source[j] =>
             /\ Submitted(j) /\ args[j].delete_original
             /\ pc[j] = "done" /\ exc[j] = None
             /\ EncoderSucceeded(j)
             /\ HasRow(j) =>
                   /\ encoding_jobs[j].status = "completed"
                   /\ encoding_jobs[j].completed_at # None
       /\ EncoderRaised(j) => source[j]

\* the file of a completed job has been unlinked
C12_Witness ==
    \E j \in JobIds :
       /\ ~source[j]
       /\ args[j].delete_original
       /\ HasRow(j) /\ encoding_jobs[j].status = "completed"

----------------------------------------------------------------------------
\* C13: the progress stream closes only right after it emitted a record with
\* status 'completed' or 'failed': the last event of a closed stream carries
\* a terminal status, and a stream that is still open has emitted no terminal
\* record.
C13_ClosesOnlyAfterTerminalEvent ==
    \A j \in JobIds :
       /\ stream[j] = "closed" =>
             /\ "status" \in DOMAIN last_event[j]
             /\ last_event[j]["status"] \in Terminal
       /\ (stream[j] = "open" /\ last_event[j] # EmptyDict) =>
             last_event[j]["status"] \notin Terminal

\* a stream closed on the event of a failed job
C13_Witness ==
    \E j \in JobIds :
       /\ stream[j] = "closed"
       /\ last_event[j]["status"] = "failed"
       /\ "error" \in DOMAIN last_event[j]

----------------------------------------------------------------------------
\* C14: a progress stream opened on a submitted job eventually observes a
\* terminal status and closes, also when the job row is missing or the failure
\* handler raises.  (The statement of the claim; it does not hold of the
\* code.)
C14_StreamEventuallyCloses ==
    \A j \in JobIds :
       (stream[j] = "open" /\ Submitted(j)) ~> (stream[j] = "closed")

\* the worker thread of job j is over and has left no terminal record: it
\* returned at lines 413-414 (no row, nothing stored), or an exception left
\* it outside the try (line 418) or inside the except clause (lines 510-514)
EndedSilently(j) ==
    /\ get_progress(j)["status"] \notin Terminal
    /\ \/ pc[j] = "crashed"
       \/ pc[j] = "done" /\ j \notin DOMAIN progress

\* C14: a progress stream opened on a submitted job eventually observes a
\* terminal status and closes, unless the worker ended without storing a
\* terminal record (row missing at the start, first commit raising, failure
\* handler raising); the stream then polls for ever.
C14_StreamClosesUnlessWorkerEndedSilently ==
    \A j \in JobIds :
       (stream[j] = "open" /\ Submitted(j)) ~>
          (stream[j] = "closed" \/ EndedSilently(j))

\* the stream of a job that ran to the end has closed on 'completed'
C14_Witness ==
    \E j \in JobIds :
       /\ stream[j] = "closed"
       /\ pc[j] = "done"
       /\ last_event[j]["status"] = "completed"
       /\ last_event[j] = get_progress(j)

----------------------------------------------------------------------------
\* C15: in every progress record published for a job, at most one of the four
\* step states is 'processing'.
Processing(d) == {k \in AllSteps \cap DOMAIN d : d[k] = "processing"}

C15_AtMostOneStepProcessing ==
    \A j \in JobIds :
       /\ Cardinality(Processing(progress_dict[j])) <= 1
       /\ j \in DOMAIN progress => Cardinality(Processing(progress[j])) <= 1

\* a later step is in progress after an earlier one was carried out
C15_Witness ==
    \E j \in JobIds :
       /\ j \in DOMAIN progress
       /\ Processing(progress[j]) = {"step_preview"}
       /\ progress[j]["has_thumbnail"]
       /\ progress[j]["step_thumbnail"] = "completed"

----------------------------------------------------------------------------
\* C16: with several jobs running at once, the record stored under a job id
\* is created, replaced or altered only by a step of that job's own worker,
\* and no step moves two workers: a worker for id A never touches the record
\* stored under another id B.
RecordOf(j) == IF j \in DOMAIN progress THEN <<progress[j]>> ELSE <<>>

WorkerMoved(j) == pc'[j] # pc[j] \/ ticks'[j] # ticks[j]

C16_OneWriterPerRecord ==
    [][\A b \in JobIds :
          RecordOf(b)' # RecordOf(b) =>
             /\ WorkerMoved(b)
             /\ pc[b] \notin {"idle", "done", "crashed"}
             /\ \A a \in JobIds \ {b} :
                   ~WorkerMoved(a) /\ progress_dict'[a] = progress_dict[a]]_vars

\* two workers are running and each has stored its own record
C16_Witness ==
    \E a, b \in JobIds :
       /\ a # b
       /\ pc[a] = "encoding" /\ pc[b] = "gen_thumbnail"
       /\ a \in DOMAIN progress /\ b \in DOMAIN progress
       /\ progress[a] # progress[b]
       /\ progress[a] = progress_dict[a] /\ progress[b] = progress_dict[b]

----------------------------------------------------------------------------
\* C17: in every reachable state the status get_progress returns for a job id
\* equals the persisted EncodingJob.status of that job.  (The statement of
\* the claim; it does not hold of the code.)
C17_StatusMirrorsRow ==
    \A j \in JobIds :
       HasRow(j) => get_progress(j)["status"] = encoding_jobs[j].status

\* the positions of the worker at which it is not between the write of one
\* store and the write of the other: before its first commit, from the first
\* publication to the return of the encoder, after the commit of 'completed',
\* and after its normal end
Settled ==
    {"idle", "start", "thumbnail", "gen_thumbnail", "preview", "gen_preview",
     "sprite", "gen_sprite", "setup", "encoding", "cleanup", "done"}

\* C17: the status get_progress returns equals the persisted status of the
\* job's row whenever the worker is not between the two writes of a
\* transition and has not been ended by an exception of its own db calls.
C17_StatusMirrorsRowWhenSettled ==
    \A j \in JobIds :
       (HasRow(j) /\ pc[j] \in Settled) =>
          get_progress(j)["status"] = encoding_jobs[j].status

\* a worker that ended on the failure path: both stores say 'failed'
C17_Witness ==
    \E j \in JobIds :
       /\ pc[j] = "done" /\ HasRow(j)
       /\ encoding_jobs[j].status = "failed"
       /\ get_progress(j)["status"] = "failed"

----------------------------------------------------------------------------
----------------------------------------------------------------------------
\* C19: get_progress for a job id without a stored record returns the default
\* {progress: 0, status: 'pending'}, returns the stored record otherwise, and
\* is read-only: a poll neither adds an entry to the progress store nor
\* changes one.
C19_GetProgressReadsOnly ==
    [][\A j \in JobIds :
          (stream'[j] # stream[j] \/ last_event'[j] # last_event[j]) =>
             /\ progress' = progress
             /\ stream[j] = "open" =>
                   last_event'[j] =
                      IF j \in DOMAIN progress
                      THEN progress[j]
                      ELSE [progress |-> 0, status |-> "pending"]]_vars

\* the stream of a job whose worker stored nothing has emitted the default
C19_Witness ==
    \E j \in JobIds :
       /\ stream[j] = "open"
       /\ pc[j] = "done"
       /\ j \notin DOMAIN progress
       /\ last_event[j] = [progress |-> 0, status |-> "pending"]

----------------------------------------------------------------------------
\* C20: the progress value of every published progress record is an integer
\* in 0..100, for every monitor input with a positive duration, elapsed times
\* below zero or beyond the duration included.  (The statement of the claim;
\* the code violates it.)
C20_ProgressInRange ==
    \A j \in JobIds : get_progress(j)["progress"] \in 0..100

----------------------------------------------------------------------------
\* C21: progress records are never pruned: an id that has a stored record
\* keeps one through every step, also after the job is terminal and after
\* its row was deleted, and a stored record is never the default 'pending'
\* one.
C21_RecordsNeverPruned ==
    [][\A j \in DOMAIN progress :
          /\ j \in DOMAIN progress'
          /\ progress[j]["status"] # "pending"
          /\ progress'[j]["status"] # "pending"]_vars

\* the record of a finished job is still stored after its row was deleted
C21_Witness ==
    \E j \in JobIds :
       /\ pc[j] = "done"
       /\ ~HasRow(j)
       /\ j \in DOMAIN progress
       /\ progress[j]["status"] = "completed"

----------------------------------------------------------------------------
\* C28: if the job has no row when the worker starts, the worker ends at once
\* and without effect: it stores no progress record, invokes no generator and
\* no encoder, leaves the source file and the rows alone; get_progress
\* returns the default 'pending' record for the id then and ever after.
C28_MissingRowNoEffect ==
    [][\A j \in JobIds :
          /\ (pc[j] = "start" /\ ~HasRow(j) /\ pc'[j] # pc[j]) =>
                /\ pc'[j] = "done"
                /\ UNCHANGED <<progress, progress_dict, source, invoked,
                               failed_gens, representations, encoding_jobs,
                               exc>>
                /\ j \notin DOMAIN progress'
          /\ (pc[j] = "done" /\ invoked[j] = <<>>) =>
                /\ j \notin DOMAIN progress /\ j \notin DOMAIN progress'
                /\ get_progress(j) = [progress |-> 0, status |-> "pending"]
                /\ source[j] /\ source'[j]
                /\ pc'[j] = "done" /\ invoked'[j] = <<>>]_vars

\* a worker that found no row has ended and nothing was stored or deleted
C28_Witness ==
    \E j \in JobIds :
       /\ Submitted(j) /\ args[j].delete_original /\ args[j].thumbnail_path
       /\ pc[j] = "done" /\ ~HasRow(j)
       /\ invoked[j] = <<>>
       /\ j \notin DOMAIN progress
       /\ source[j]

----------------------------------------------------------------------------
\* C29: across the successive records published for one job, each step state
\* only moves forward along pending -> processing -> completed, the failure
\* path included.
StepRank == [pending |-> 0, processing |-> 1, completed |-> 2]

C29_StepsOnlyMoveForward ==
    [][\A j \in (DOMAIN progress) \cap (DOMAIN progress') :
          \A k \in AllSteps :
             /\ k \in DOMAIN progress[j] /\ k \in DOMAIN progress'[j]
             /\ progress[j][k] \in DOMAIN StepRank
             /\ progress'[j][k] \in DOMAIN StepRank
             /\ StepRank[progress[j][k]] <= StepRank[progress'[j][k]]]_vars

\* a failed record keeps the step states reached before the failure
C29_Witness ==
    \E j \in JobIds :
       /\ j \in DOMAIN progress
       /\ progress[j]["status"] = "failed"
       /\ progress[j]["step_encoding"] = "processing"
       /\ progress[j]["has_preview"]
       /\ progress[j]["step_preview"] = "completed"

----------------------------------------------------------------------------
\* C30: 'completed' is published in the progress record before it is
\* committed on the row, and 'failed' is committed on the row before it is
\* published: in every state a row that says 'completed' has a record that
\* says 'completed', and a record that says 'failed' has, if the row still
\* exists, a row that says 'failed'.
C30_OppositeOrders ==
    \A j \in JobIds :
       HasRow(j) =>
          /\ encoding_jobs[j].status = "completed" =>
                get_progress(j)["status"] = "completed"
          /\ get_progress(j)["status"] = "failed" =>
                encoding_jobs[j].status = "failed"

\* 'completed' has just been committed, after its publication
C30_Witness ==
    \E j \in JobIds :
       /\ pc[j] = "cleanup"
       /\ HasRow(j)
       /\ encoding_jobs[j].status = "completed"
       /\ get_progress(j)["status"] = "completed"

----------------------------------------------------------------------------
\* C22: generate_thumbnail_from_hls and generate_preview_from_hls, finding
\* no sub-playlist '<filename>_<N>p.m3u8' in the directory, return False
\* without having run any subprocess or created any file or directory.
C22_NoPlaylistNoEffect ==
    (fn \in FromHls /\ "qualities" \in DOMAIN locals
        /\ locals["qualities"] = {}) =>
       /\ at = "returned"
       /\ ret = FALSE
       /\ subprocesses = <<>>
       /\ files = {}

\* a call that found no sub-playlist has returned
C22_Witness ==
    /\ fn = "generate_preview_from_hls"
    /\ at = "returned"
    /\ "qualities" \in DOMAIN locals /\ locals["qualities"] = {}
    /\ ret = FALSE

----------------------------------------------------------------------------
\* C23: the temporary concat list of generate_preview_from_hls no longer
\* exists when the function has returned, on every path: success, non-zero
\* exit, empty output, exception while launching or running the tool.  (The
\* statement of the claim; the code violates it.)
C23_ConcatFileRemoved ==
    (fn = "generate_preview_from_hls" /\ at = "returned") =>
       "concat_file" \notin files

----------------------------------------------------------------------------
\* C24: _get_video_duration issues the stream-level query whenever the
\* container-level query yields an absent or non-numeric value (empty output,
\* 'N/A', any other text that is not a number), and reports 0 only after the
\* stream-level query was made as well.  (The statement of the claim; the
\* code violates it.)
C24_FallsBackToStreamQuery ==
    (/\ at \notin {"none", "scan", "segments", "probe_container",
                   "probe_stream"}
     /\ Len(subprocesses) >= 1
     /\ subprocesses[1].cmd = "ffprobe"
     /\ subprocesses[1].launched
     /\ ~IsFloat(Strip(subprocesses[1].stdout))) =>
       /\ Len(subprocesses) >= 2
       /\ subprocesses[2].cmd = "ffprobe"
       /\ subprocesses[2].entries = "stream=duration"

----------------------------------------------------------------------------
\* C25: among the qualities that have a sub-playlist in the directory,
\* generate_thumbnail_from_hls reads segments of the one with the highest
\* numeric resolution and generate_preview_from_hls of the one with the
\* lowest; neither reads a quality without a sub-playlist.
Pixels(name) ==
    CASE name = <<3, 6, 0>> -> 360
      [] name = <<7, 2, 0>> -> 720
      [] name = <<1, 0, 8, 0>> -> 1080

C25_HighestForThumbnailLowestForPreview ==
    (fn \in FromHls /\ "quality" \in DOMAIN locals) =>
       LET quality == locals["quality"]
           present == locals["qualities"]
       IN  /\ quality \in present
           /\ fn = "generate_thumbnail_from_hls" =>
                 \A q \in present : Pixels(q) <= Pixels(quality)
           /\ fn = "generate_preview_from_hls" =>
                 \A q \in present : Pixels(q) >= Pixels(quality)
           /\ \A i \in 1..Len(subprocesses) :
                 subprocesses[i].cmd = "ffmpeg" =>
                    subprocesses[i].input[1] = quality

\* the thumbnail was taken from 1080p, although '1080p' sorts before '720p'
\* as a string
C25_Witness ==
    /\ fn = "generate_thumbnail_from_hls"
    /\ at = "returned" /\ ret = TRUE
    /\ locals["qualities"] = {<<3, 6, 0>>, <<7, 2, 0>>, <<1, 0, 8, 0>>}
    /\ subprocesses[Len(subprocesses)].cmd = "ffmpeg"
    /\ subprocesses[Len(subprocesses)].input[1] = <<1, 0, 8, 0>>

----------------------------------------------------------------------------
\* C27: when the probed duration is unknown, the sprite generator is the
\* only from-source generator that fails without invoking the extraction
\* tool: _generate_thumbnail and _generate_preview still invoke it, with a
\* fallback position.  (The statement of the claim; the code violates it.)
InvokedFfmpeg ==
    \E i \in 1..Len(subprocesses) : subprocesses[i].cmd = "ffmpeg"

C27_OnlySpriteFailsOutright ==
    (fn \in FromSource /\ at = "returned" /\ locals["duration"] <= 0) =>
       IF fn = "_generate_sprite"
       THEN ret = FALSE /\ ~InvokedFfmpeg
       ELSE InvokedFfmpeg

----------------------------------------------------------------------------
\* C26: _generate_thumbnail extracts its frame at 1 second when the probed
\* duration is unknown (0 or negative) and within [10%, 90%] of the duration
\* when it is known; the unknown duration does not keep a job with only the
\* thumbnail target from 'completed': the call returns, the step is marked
\* 'completed', and once the encoder has returned the record says
\* 'completed', as does the row once its update went through.
C26_ThumbnailTimestamp ==
    /\ (fn = "_generate_thumbnail" /\ at = "returned") =>
          /\ ret \in BOOLEAN
          /\ Len(subprocesses) >= 2
          /\ LET run == subprocesses[Len(subprocesses)]
                 duration == locals["duration"]
             IN  /\ run.cmd = "ffmpeg"
                 /\ duration <= 0 => run.ss = 10
                 /\ duration > 0 =>
                       /\ 10 * run.ss >= 10 * duration
                       /\ 10 * run.ss <= 90 * duration
    /\ \A j \in JobIds :
          (/\ fn = "_generate_thumbnail" /\ at = "returned"
           /\ locals["duration"] <= 0
           /\ pc[j] \notin {"idle", "start", "init", "thumbnail",
                            "gen_thumbnail"}) =>
             /\ progress_dict[j]["step_thumbnail"] = "completed"
             /\ (EncoderSucceeded(j) /\ exc[j] = None) =>
                   /\ get_progress(j)["status"] = "completed"
                   /\ (pc[j] \in {"cleanup", "done"} /\ HasRow(j)) =>
                         encoding_jobs[j].status = "completed"

\* a job with only the thumbnail target whose source has no readable
\* duration: the frame was asked for at 1 second and the job is 'completed'
C26_Witness ==
    \E j \in JobIds :
       /\ args[j] = Args(TRUE, FALSE, FALSE, FALSE, <<>>)
       /\ fn = "_generate_thumbnail" /\ at = "returned"
       /\ Len(subprocesses) = 3
       /\ subprocesses[1].stdout = "N/A" /\ subprocesses[2].stdout = "N/A"
       /\ locals["duration"] = 0
       /\ subprocesses[3].ss = 10
       /\ pc[j] = "done"
       /\ get_progress(j)["status"] = "completed"
       /\ HasRow(j) /\ encoding_jobs[j].status = "completed"

====
